---- MODULE Spec2Model ----
(***************************************************************************)
(* Handle lifecycle and error translation of the oracle crate:             *)
(*   src/oracle/src/internal/connection.rs  (Environment, connect,         *)
(*                                           Connection, Drop)             *)
(*   src/oracle/src/internal/oci.rs         (OracleError, error_get,       *)
(*                                           check_error)                  *)
(* The native client library (OCI) is the environment of the model: every  *)
(* native call returns a status code chosen nondeterministically.          *)
(***************************************************************************)
EXTENDS Integers, Sequences, FiniteSets, TLC

(***************************************************************************)
(* Bounds of the model.                                                    *)
(***************************************************************************)
\* number of client threads
NumThreads == 2
\* connect calls the threads may start, all together
MaxConnects == 2
\* transaction calls (commit / rollback) the threads may start, all together
MaxTxCalls == 2

Threads == 1..NumThreads

(***************************************************************************)
(* Native status codes (the values of the OCI client header).              *)
(***************************************************************************)
OCI_SUCCESS == 0
OCI_SUCCESS_WITH_INFO == 1
OCI_NEED_DATA == 99
OCI_NO_DATA == 100
OCI_ERROR == -1
OCI_INVALID_HANDLE == -2
OCI_STILL_EXECUTING == -3123
\* the native error code check_error special-cases
ORA_NULL_IN_AGGREGATE == 24347

DocumentedStatuses ==
    { OCI_SUCCESS, OCI_SUCCESS_WITH_INFO, OCI_NEED_DATA, OCI_NO_DATA,
      OCI_ERROR, OCI_INVALID_HANDLE, OCI_STILL_EXECUTING }

\* every status code the model lets a native call return
\* status codes outside the documented set (-24200 is the header's
\* OCI_CONTINUE, which check_error does not name)
UndocumentedStatuses == { -24200, ORA_NULL_IN_AGGREGATE }

AllStatuses == DocumentedStatuses \cup UndocumentedStatuses

\* the status codes the native calls of the lifecycle model return: success,
\* the two statuses whose detail is read from the error handle, one of the
\* four fixed-message statuses (check_error treats the four alike) and one
\* undocumented status
NativeStatuses ==
    { OCI_SUCCESS, OCI_ERROR, OCI_SUCCESS_WITH_INFO, OCI_NO_DATA, -24200 }

(***************************************************************************)
(* The diagnostic record an error handle holds: the native error code and  *)
(* the message text OCIErrorGet would copy out.  A handle with no record   *)
(* leaves the code at its initial 0.                                       *)
(***************************************************************************)
NoRecord == [code |-> 0, text |-> ""]

ErrTexts == { "ORA-a", "ORA-b" }

ErrRecords ==
    { [code |-> c, text |-> x] :
        c \in { ORA_NULL_IN_AGGREGATE, 1017 }, x \in ErrTexts }

\* the diagnostic records the native calls of the lifecycle model leave
NativeRecords ==
    { [code |-> ORA_NULL_IN_AGGREGATE, text |-> "ORA-a"],
      [code |-> 1017, text |-> "ORA-b"] }

\* Option<*mut OCIError>: None, or Some(handle) given by the record it holds
None == [some |-> FALSE]
Some(rec) == [some |-> TRUE, rec |-> rec]

(***************************************************************************)
(* oci.rs: OracleError, error_get, check_error                             *)
(***************************************************************************)
OracleError(errcode, message, location) ==
    [errcode |-> errcode, message |-> message, location |-> location]

\* error_get: errcode is what OCIErrorGet stored through errcodep.  The
\* message is `buf`, a String created with capacity 2048 and length 0;
\* OCIErrorGet writes into its spare capacity and the length is never
\* set, so the String handed to OracleError is empty whatever was copied.
error_get(rec, location) ==
    OracleError(rec.code, "", location)

Ok == [tag |-> "Ok", gets |-> 0]
Err(e, gets) == [tag |-> "Err", err |-> e, gets |-> gets]
Panic(gets) == [tag |-> "Panic", gets |-> gets]

\* by_handle without the special case for code 24347
by_handle_NoSpecialCase(handle, location) ==
    IF handle.some THEN Some(error_get(handle.rec, location)) ELSE None

\* handle.map(|errhp| { ... }): evaluated before the status is inspected
by_handle(handle, location) ==
    IF handle.some
    THEN LET error == error_get(handle.rec, location)
         IN  Some(IF error.errcode = ORA_NULL_IN_AGGREGATE
                  THEN OracleError(error.errcode,
                                   "NULL column in a aggregate function",
                                   error.location)
                  ELSE error)
    ELSE None

unwrap_or(opt, default) == IF opt.some THEN opt.rec ELSE default

\* check_error taking success-with-info for a success
check_error_InfoIsOk(errcode, handle, location) ==
    IF errcode \in { OCI_SUCCESS, OCI_SUCCESS_WITH_INFO }
    THEN Ok
    ELSE LET bh   == by_handle(handle, location)
             gets == IF handle.some THEN 1 ELSE 0
         IN  IF errcode = OCI_ERROR
             THEN Err(unwrap_or(bh, OracleError(errcode, "Error with no details", location)), gets)
             ELSE IF errcode = OCI_SUCCESS_WITH_INFO
             THEN Err(unwrap_or(bh, OracleError(errcode, "Success with info", location)), gets)
             ELSE IF errcode = OCI_NO_DATA
             THEN Err(OracleError(errcode, "No data", location), gets)
             ELSE IF errcode = OCI_INVALID_HANDLE
             THEN Err(OracleError(errcode, "Invalid handle", location), gets)
             ELSE IF errcode = OCI_NEED_DATA
             THEN Err(OracleError(errcode, "Need data", location), gets)
             ELSE IF errcode = OCI_STILL_EXECUTING
             THEN Err(OracleError(errcode, "Steel executing", location), gets)
             ELSE Panic(gets)

\* check_error whose last arm returns an error value instead of panicking
check_error_UnknownIsErr(errcode, handle, location) ==
    IF errcode = OCI_SUCCESS
    THEN Ok
    ELSE LET bh   == by_handle(handle, location)
             gets == IF handle.some THEN 1 ELSE 0
         IN  IF errcode = OCI_ERROR
             THEN Err(unwrap_or(bh, OracleError(errcode, "Error with no details", location)), gets)
             ELSE IF errcode = OCI_SUCCESS_WITH_INFO
             THEN Err(unwrap_or(bh, OracleError(errcode, "Success with info", location)), gets)
             ELSE IF errcode = OCI_NO_DATA
             THEN Err(OracleError(errcode, "No data", location), gets)
             ELSE IF errcode = OCI_INVALID_HANDLE
             THEN Err(OracleError(errcode, "Invalid handle", location), gets)
             ELSE IF errcode = OCI_NEED_DATA
             THEN Err(OracleError(errcode, "Need data", location), gets)
             ELSE IF errcode = OCI_STILL_EXECUTING
             THEN Err(OracleError(errcode, "Steel executing", location), gets)
             ELSE Err(OracleError(errcode, "Unknow return code", location), gets)

\* `gets` counts the error_get calls the evaluation made
check_error(errcode, handle, location) ==
    IF errcode = OCI_SUCCESS
    THEN Ok
    ELSE LET bh   == by_handle(handle, location)
             gets == IF handle.some THEN 1 ELSE 0
         IN  IF errcode = OCI_ERROR
             THEN Err(unwrap_or(bh, OracleError(errcode, "Error with no details", location)), gets)
             ELSE IF errcode = OCI_SUCCESS_WITH_INFO
             THEN Err(unwrap_or(bh, OracleError(errcode, "Success with info", location)), gets)
             ELSE IF errcode = OCI_NO_DATA
             THEN Err(OracleError(errcode, "No data", location), gets)
             ELSE IF errcode = OCI_INVALID_HANDLE
             THEN Err(OracleError(errcode, "Invalid handle", location), gets)
             ELSE IF errcode = OCI_NEED_DATA
             THEN Err(OracleError(errcode, "Need data", location), gets)
             ELSE IF errcode = OCI_STILL_EXECUTING
             THEN Err(OracleError(errcode, "Steel executing", location), gets)
             ELSE Panic(gets)

(***************************************************************************)
(* State.                                                                  *)
(***************************************************************************)
VARIABLES
    oci,        \* the native layer: live handles, frees, wiring, call counts
    errRec,     \* the diagnostic record held by the shared error handle
    once,       \* ORACLE_ENV's Once: incomplete, running, complete, poisoned
    envValue,   \* the EnvironmentResult stored in ORACLE_ENV
    initBy,     \* threads that ran Environment::new
    pc,         \* each thread's position
    loc,        \* each thread's locals of the running call
    calls,      \* native calls made by each thread's current (last) operation
    ret,        \* what each thread's last operation returned
    conns,      \* the Connection values that exist
    nconn,      \* connect calls each thread has started
    ntx,        \* commit / rollback calls each thread has started
    exited,     \* the process has ended
    cin,        \* check_error harness: the arguments
    cout        \* check_error harness: the result

mainVars == << oci, errRec, once, envValue, initBy, pc, loc, calls, ret,
               conns, nconn, ntx, exited >>
vars == << oci, errRec, once, envValue, initBy, pc, loc, calls, ret,
           conns, nconn, ntx, exited, cin, cout >>

(***************************************************************************)
(* Native handles.  The native allocator hands out a fresh handle on every *)
(* successful allocation; a handle is named by the thread, the call and    *)
(* the handle type that asked for it.                                      *)
(***************************************************************************)
Null == << 0, 0, "null" >>
Handle(t, k, htype) == << t, k, htype >>
HandleType(h) == h[3]

NoValue == [tag |-> "None"]

\* the native operations: w = [oci |-> native state, log |-> the caller's log]
Logged(w, op, h, st) ==
    [w EXCEPT !.log = Append(@, [op |-> op, ty |-> HandleType(h), h |-> h, st |-> st])]

\* OCIHandleAlloc / the allocation inside prepare_auth, on success
NativeAlloc(w, op, h) ==
    [Logged(w, op, h, OCI_SUCCESS) EXCEPT !.oci.allocated = @ \cup {h}]

\* an allocation of a handle of type htype that returned st and no handle
NativeFailed(w, op, htype, st) ==
    [w EXCEPT !.log = Append(@, [op |-> op, ty |-> htype, h |-> Null, st |-> st])]

\* oci::handle_free: a free of a handle that is not live is a double free
handle_free(w, h) ==
    [Logged(w, "handle_free", h, OCI_SUCCESS) EXCEPT
        !.oci.allocated = @ \ {h},
        !.oci.freed = IF h \in w.oci.allocated THEN @ \cup {h} ELSE @,
        !.oci.doubleFreed = IF h \in w.oci.allocated THEN @ ELSE @ \cup {h},
        !.oci.dirtyFreed = IF h \in w.oci.attached \cup w.oci.begun
                           THEN @ \cup {h} ELSE @]

\* a native success-with-info status reports an operation that took effect
Took(st) == st \in { OCI_SUCCESS, OCI_SUCCESS_WITH_INFO }

(***************************************************************************)
(* connection.rs: the free helpers                                         *)
(***************************************************************************)
\* free_session_handler that frees nothing
free_session_handler_Never(w, authp) == w

free_session_handler(w, authp) ==
    IF authp # Null THEN handle_free(w, authp) ELSE w

\* free_server_handlers that frees the service context only
free_server_handlers_SvcOnly(w, srvhp, svchp) ==
    IF svchp # Null THEN handle_free(w, svchp) ELSE w

free_server_handlers(w, srvhp, svchp) ==
    LET w1 == IF svchp # Null THEN handle_free(w, svchp) ELSE w
    IN  IF srvhp # Null THEN handle_free(w1, srvhp) ELSE w1

(***************************************************************************)
(* Plumbing shared by the actions.                                         *)
(***************************************************************************)
World(t) == [oci |-> oci, log |-> calls[t]]

SetWorld(t, w) ==
    /\ oci' = w.oci
    /\ calls' = [calls EXCEPT ![t] = w.log]

NoLocals ==
    [k |-> 0, env |-> NoValue, envhp |-> Null, srvhp |-> Null, svchp |-> Null,
     authp |-> Null, conn |-> NoValue, pend |-> OCI_SUCCESS, rec |-> NoRecord]

\* the operation of thread t returns Err(e); `step` names the failed step
ReturnErr(t, op, step, e) ==
    /\ ret' = [ret EXCEPT ![t] = [tag |-> "Err", op |-> op, step |-> step, err |-> e]]
    /\ pc' = [pc EXCEPT ![t] = "idle"]

\* the operation of thread t panics: the thread unwinds
Panics(t, op, step) ==
    /\ ret' = [ret EXCEPT ![t] = [tag |-> "Panic", op |-> op, step |-> step]]
    /\ pc' = [pc EXCEPT ![t] = "panicked"]

\* a native call made with the shared error handle returned a non-success
\* status: the native layer leaves its diagnostic record in the handle
\* (for the statuses that carry one) and the wrapper goes on to check_error
Recorded(st, r) ==
    IF st \in { OCI_ERROR, OCI_SUCCESS_WITH_INFO } THEN r ELSE errRec

ToCheck(t, st, r, chk) ==
    /\ errRec' = Recorded(st, r)
    /\ loc' = [loc EXCEPT ![t].pend = st, ![t].rec = Recorded(st, r)]
    /\ pc' = [pc EXCEPT ![t] = chk]

\* calls started so far, over all threads
Total(n) == Cardinality({ << t, i >> \in Threads \X (1..(MaxConnects + MaxTxCalls)) : i <= n[t] })

(***************************************************************************)
(* Init.                                                                   *)
(***************************************************************************)
InitMain ==
    /\ oci = [allocated |-> {}, freed |-> {}, doubleFreed |-> {},
              dirtyFreed |-> {}, attached |-> {}, begun |-> {},
              srvAttr |-> {}, sesAttr |-> {}, envCreates |-> 0,
              terminated |-> FALSE]
    /\ errRec = NoRecord
    /\ once = "incomplete"
    /\ envValue = NoValue
    /\ initBy = {}
    /\ pc = [t \in Threads |-> "idle"]
    /\ loc = [t \in Threads |-> NoLocals]
    /\ calls = [t \in Threads |-> << >>]
    /\ ret = [t \in Threads |-> NoValue]
    /\ conns = {}
    /\ nconn = [t \in Threads |-> 0]
    /\ ntx = [t \in Threads |-> 0]
    /\ exited = FALSE

Init ==
    /\ InitMain
    /\ cin = NoValue
    /\ cout = NoValue

(***************************************************************************)
(* connect, entry: let env = Environment::get()?                           *)
(***************************************************************************)
StartConnect(t) ==
    /\ ~exited
    /\ pc[t] = "idle"
    /\ Total(nconn) < MaxConnects
    /\ nconn' = [nconn EXCEPT ![t] = @ + 1]
    /\ pc' = [pc EXCEPT ![t] = "get"]
    /\ loc' = [loc EXCEPT ![t] = [NoLocals EXCEPT !.k = nconn[t] + 1]]
    /\ calls' = [calls EXCEPT ![t] = << >>]
    /\ ret' = [ret EXCEPT ![t] = NoValue]
    /\ UNCHANGED << oci, errRec, once, envValue, initBy, conns, ntx, exited, cin, cout >>

\* a cell whose check and whose claim of the initialisation are not one
\* atomic step: a second thread may start the initialiser too
OnceMayInit_Racy(t) == once \in { "incomplete", "running" } /\ t \notin initBy

\* a cell that does not keep its value: a later access initialises again
OnceMayInit_Always(t) == once \in { "incomplete", "complete" }

\* a cell that keeps an Ok only: after a failed initialisation the next
\* access runs the initialiser again
OnceMayInit_RetryOnErr(t) ==
    \/ once = "incomplete"
    \/ once = "complete" /\ envValue.tag = "Err"

\* lazy_static's Once: the thread that finds the cell incomplete runs the
\* initialiser; a thread that finds it running waits
OnceMayInit(t) == once = "incomplete"

\* Environment::get: the dereference of ORACLE_ENV and the match on it
EnvironmentGet(t) ==
    /\ ~exited
    /\ pc[t] = "get"
    /\ \/ /\ OnceMayInit(t)
          /\ once' = "running"
          /\ initBy' = initBy \cup {t}
          /\ pc' = [pc EXCEPT ![t] = "new_env"]
          /\ UNCHANGED << loc, ret >>
       \/ /\ once = "complete"
          /\ envValue.tag = "Ok"
          /\ loc' = [loc EXCEPT ![t].env = envValue.env]
          /\ pc' = [pc EXCEPT ![t] = "srv"]
          /\ UNCHANGED << once, initBy, ret >>
       \/ /\ once = "complete"
          /\ envValue.tag = "Err"
          /\ ReturnErr(t, "connect", "get", envValue.err)
          /\ UNCHANGED << once, initBy, loc >>
       \/ /\ once = "poisoned"
          /\ Panics(t, "connect", "get")
          /\ UNCHANGED << once, initBy, loc >>
    /\ UNCHANGED << oci, errRec, envValue, calls, conns, nconn, ntx, exited, cin, cout >>

\* the initialiser's result is stored and the Once completes
InitDone(t, value) ==
    /\ envValue' = value
    /\ once' = "complete"
    /\ pc' = [pc EXCEPT ![t] = "get"]
    /\ UNCHANGED ret

\* the initialiser panicked: the Once is poisoned
InitPanics(t, step) ==
    /\ once' = "poisoned"
    /\ Panics(t, "connect", step)
    /\ UNCHANGED envValue

\* Environment::new, first call: let envhp = oci::env_create()?
EnvironmentNewCreate(t) ==
    /\ ~exited
    /\ pc[t] = "new_env"
    /\ \E st \in NativeStatuses :
         LET h  == Handle(t, 0, "env")
             w0 == [World(t) EXCEPT !.oci.envCreates = @ + 1]
             r  == check_error(st, None, "oci::env_create")
         IN  \/ /\ r.tag = "Ok"
                /\ SetWorld(t, NativeAlloc(w0, "env_create", h))
                /\ loc' = [loc EXCEPT ![t].envhp = h]
                /\ pc' = [pc EXCEPT ![t] = "new_err"]
                /\ UNCHANGED << once, envValue, ret >>
             \/ /\ r.tag = "Err"
                /\ SetWorld(t, NativeFailed(w0, "env_create", "env", st))
                /\ InitDone(t, [tag |-> "Err", err |-> r.err])
                /\ UNCHANGED loc
             \/ /\ r.tag = "Panic"
                /\ SetWorld(t, NativeFailed(w0, "env_create", "env", st))
                /\ InitPanics(t, "new_env")
                /\ UNCHANGED loc
    /\ UNCHANGED << errRec, initBy, conns, nconn, ntx, exited, cin, cout >>

\* Environment::new, second call: oci::handle_alloc(envhp, OCI_HTYPE_ERROR)?
\* and Ok(Environment{ envhp, errhp })
EnvironmentNewErrAlloc(t) ==
    /\ ~exited
    /\ pc[t] = "new_err"
    /\ \E st \in NativeStatuses :
         LET h == Handle(t, 0, "error")
             r == check_error(st, None, "oci::handle_alloc")
         IN  \/ /\ r.tag = "Ok"
                /\ SetWorld(t, NativeAlloc(World(t), "handle_alloc", h))
                /\ InitDone(t, [tag |-> "Ok",
                                env |-> [envhp |-> loc[t].envhp, errhp |-> h]])
             \/ /\ r.tag = "Err"
                /\ SetWorld(t, NativeFailed(World(t), "handle_alloc", "error", st))
                /\ InitDone(t, [tag |-> "Err", err |-> r.err])
             \/ /\ r.tag = "Panic"
                /\ SetWorld(t, NativeFailed(World(t), "handle_alloc", "error", st))
                /\ InitPanics(t, "new_err")
    /\ UNCHANGED << errRec, initBy, loc, conns, nconn, ntx, exited, cin, cout >>

(***************************************************************************)
(* connect, the steps after the Environment is obtained.                   *)
(***************************************************************************)
\* `?` on a failed step: the error is returned as it is, nothing is freed
Propagate(t, step, r) ==
    \/ /\ r.tag = "Err"
       /\ ReturnErr(t, "connect", step, r.err)
    \/ /\ r.tag = "Panic"
       /\ Panics(t, "connect", step)

\* let srvhp = oci::handle_alloc(env.envhp, oci::OCI_HTYPE_SERVER)?
ConnectAllocServer(t) ==
    /\ ~exited
    /\ pc[t] = "srv"
    /\ \E st \in NativeStatuses :
         LET h == Handle(t, loc[t].k, "server")
             r == check_error(st, None, "oci::handle_alloc")
         IN  \/ /\ r.tag = "Ok"
                /\ SetWorld(t, NativeAlloc(World(t), "handle_alloc", h))
                /\ loc' = [loc EXCEPT ![t].srvhp = h]
                /\ pc' = [pc EXCEPT ![t] = "svc"]
                /\ UNCHANGED ret
             \/ /\ r.tag # "Ok"
                /\ SetWorld(t, NativeFailed(World(t), "handle_alloc", "server", st))
                /\ Propagate(t, "srv", r)
                /\ UNCHANGED loc
    /\ UNCHANGED << errRec, once, envValue, initBy, conns, nconn, ntx, exited, cin, cout >>

\* let svchp = oci::handle_alloc(env.envhp, oci::OCI_HTYPE_SVCCTX)?
ConnectAllocSvcCtx(t) ==
    /\ ~exited
    /\ pc[t] = "svc"
    /\ \E st \in NativeStatuses :
         LET h == Handle(t, loc[t].k, "svcctx")
             r == check_error(st, None, "oci::handle_alloc")
         IN  \/ /\ r.tag = "Ok"
                /\ SetWorld(t, NativeAlloc(World(t), "handle_alloc", h))
                /\ loc' = [loc EXCEPT ![t].svchp = h]
                /\ pc' = [pc EXCEPT ![t] = "attach"]
                /\ UNCHANGED ret
             \/ /\ r.tag # "Ok"
                /\ SetWorld(t, NativeFailed(World(t), "handle_alloc", "svcctx", st))
                /\ Propagate(t, "svc", r)
                /\ UNCHANGED loc
    /\ UNCHANGED << errRec, once, envValue, initBy, conns, nconn, ntx, exited, cin, cout >>

\* let res = oci::server_attach(srvhp, errhp, db): the native call
ConnectServerAttach(t) ==
    /\ ~exited
    /\ pc[t] = "attach"
    /\ \E st \in NativeStatuses, r \in NativeRecords :
         LET w0 == Logged(World(t), "server_attach", loc[t].srvhp, st)
             w1 == IF Took(st)
                   THEN [w0 EXCEPT !.oci.attached = @ \cup {loc[t].srvhp}]
                   ELSE w0
         IN  /\ SetWorld(t, w1)
             /\ IF st = OCI_SUCCESS
                THEN /\ pc' = [pc EXCEPT ![t] = "attr_srv"]
                     /\ UNCHANGED << errRec, loc >>
                ELSE ToCheck(t, st, r, "attach_chk")
    /\ UNCHANGED << once, envValue, initBy, ret, conns, nconn, ntx, exited, cin, cout >>

\* if let Err(err) = res { free_server_handlers(srvhp, svchp); return Err(err) }
ConnectServerAttachFailed(t) ==
    /\ ~exited
    /\ pc[t] = "attach_chk"
    /\ LET r == check_error(loc[t].pend, Some(errRec), "oci::server_attach")
       IN  \/ /\ r.tag = "Err"
              /\ SetWorld(t, free_server_handlers(World(t), loc[t].srvhp, loc[t].svchp))
              /\ ReturnErr(t, "connect", "attach", r.err)
           \/ /\ r.tag = "Panic"
              /\ Panics(t, "connect", "attach")
              /\ UNCHANGED << oci, calls >>
    /\ UNCHANGED << errRec, once, envValue, initBy, loc, conns, nconn, ntx, exited, cin, cout >>

\* oci::attr_set(svchp, OCI_HTYPE_SVCCTX, srvhp, 0, OCI_ATTR_SERVER, errhp)
ConnectSetServerAttr(t) ==
    /\ ~exited
    /\ pc[t] = "attr_srv"
    /\ \E st \in NativeStatuses, r \in NativeRecords :
         LET w0 == Logged(World(t), "attr_set_server", loc[t].svchp, st)
             w1 == IF Took(st)
                   THEN [w0 EXCEPT !.oci.srvAttr = @ \cup {<< loc[t].svchp, loc[t].srvhp >>}]
                   ELSE w0
         IN  /\ SetWorld(t, w1)
             /\ IF st = OCI_SUCCESS
                THEN /\ pc' = [pc EXCEPT ![t] = "auth"]
                     /\ UNCHANGED << errRec, loc >>
                ELSE ToCheck(t, st, r, "attr_srv_chk")
    /\ UNCHANGED << once, envValue, initBy, ret, conns, nconn, ntx, exited, cin, cout >>

\* the first attr_set without the `?`: its result is dropped and connect
\* goes on
ConnectSetServerAttrFailed_Ignored(t) ==
    /\ ~exited
    /\ pc[t] = "attr_srv_chk"
    /\ pc' = [pc EXCEPT ![t] = "auth"]
    /\ UNCHANGED << oci, errRec, once, envValue, initBy, loc, calls, ret, conns, nconn, ntx,
                    exited, cin, cout >>

\* the `?` after the first attr_set
ConnectSetServerAttrFailed(t) ==
    /\ ~exited
    /\ pc[t] = "attr_srv_chk"
    /\ Propagate(t, "attr_srv", check_error(loc[t].pend, Some(errRec), "oci::attr_set"))
    /\ UNCHANGED << oci, errRec, once, envValue, initBy, loc, calls, conns, nconn, ntx,
                    exited, cin, cout >>

\* let authp = oci::prepare_auth(env.envhp, errhp, username, passwd)
ConnectPrepareAuth(t) ==
    /\ ~exited
    /\ pc[t] = "auth"
    /\ \E st \in NativeStatuses, r \in NativeRecords :
         LET h == Handle(t, loc[t].k, "session")
         IN  IF st = OCI_SUCCESS
             THEN /\ SetWorld(t, NativeAlloc(World(t), "prepare_auth", h))
                  /\ loc' = [loc EXCEPT ![t].authp = h]
                  /\ pc' = [pc EXCEPT ![t] = "begin"]
                  /\ UNCHANGED errRec
             ELSE /\ SetWorld(t, NativeFailed(World(t), "prepare_auth", "session", st))
                  /\ ToCheck(t, st, r, "auth_chk")
    /\ UNCHANGED << once, envValue, initBy, ret, conns, nconn, ntx, exited, cin, cout >>

\* the `?` after prepare_auth
ConnectPrepareAuthFailed(t) ==
    /\ ~exited
    /\ pc[t] = "auth_chk"
    /\ Propagate(t, "auth", check_error(loc[t].pend, Some(errRec), "oci::prepare_auth"))
    /\ UNCHANGED << oci, errRec, once, envValue, initBy, loc, calls, conns, nconn, ntx,
                    exited, cin, cout >>

\* let res = oci::session_begin(svchp, errhp, authp): the native call
ConnectSessionBegin(t) ==
    /\ ~exited
    /\ pc[t] = "begin"
    /\ \E st \in NativeStatuses, r \in NativeRecords :
         LET w0 == Logged(World(t), "session_begin", loc[t].authp, st)
             w1 == IF Took(st)
                   THEN [w0 EXCEPT !.oci.begun = @ \cup {loc[t].authp}]
                   ELSE w0
         IN  /\ SetWorld(t, w1)
             /\ IF st = OCI_SUCCESS
                THEN /\ pc' = [pc EXCEPT ![t] = "attr_ses"]
                     /\ UNCHANGED << errRec, loc >>
                ELSE ToCheck(t, st, r, "begin_chk")
    /\ UNCHANGED << once, envValue, initBy, ret, conns, nconn, ntx, exited, cin, cout >>

\* if let Err(err) = res { free_session_handler(authp);
\*                         free_server_handlers(srvhp, svchp); return Err(err) }
ConnectSessionBeginFailed(t) ==
    /\ ~exited
    /\ pc[t] = "begin_chk"
    /\ LET r == check_error(loc[t].pend, Some(errRec), "oci::session_begin")
       IN  \/ /\ r.tag = "Err"
              /\ SetWorld(t, free_server_handlers(
                                free_session_handler(World(t), loc[t].authp),
                                loc[t].srvhp, loc[t].svchp))
              /\ ReturnErr(t, "connect", "begin", r.err)
           \/ /\ r.tag = "Panic"
              /\ Panics(t, "connect", "begin")
              /\ UNCHANGED << oci, calls >>
    /\ UNCHANGED << errRec, once, envValue, initBy, loc, conns, nconn, ntx, exited, cin, cout >>

\* Connection::new
ConnectionNew(owner, env, srvhp, authp, errhp, svchp) ==
    [owner |-> owner, env |-> env, srvhp |-> srvhp, authp |-> authp,
     errhp |-> errhp, svchp |-> svchp]

\* the last step without the `?`: the Connection is returned whatever
\* status the second attr_set gave
ConnectSetSessionAttr_Unchecked(t) ==
    /\ ~exited
    /\ pc[t] = "attr_ses"
    /\ \E st \in NativeStatuses, r \in NativeRecords :
         LET w0 == Logged(World(t), "attr_set_session", loc[t].svchp, st)
             w1 == IF Took(st)
                   THEN [w0 EXCEPT !.oci.sesAttr = @ \cup {<< loc[t].svchp, loc[t].authp >>}]
                   ELSE w0
             c  == ConnectionNew(t, loc[t].env, loc[t].srvhp, loc[t].authp,
                                 loc[t].env.errhp, loc[t].svchp)
         IN  /\ SetWorld(t, w1)
             /\ conns' = conns \cup {c}
             /\ ret' = [ret EXCEPT ![t] = [tag |-> "Ok", op |-> "connect", conn |-> c]]
             /\ pc' = [pc EXCEPT ![t] = "idle"]
             /\ errRec' = IF st = OCI_SUCCESS THEN errRec ELSE Recorded(st, r)
             /\ UNCHANGED loc
    /\ UNCHANGED << once, envValue, initBy, nconn, ntx, exited, cin, cout >>

\* the last step with the server handle passed as the session attribute
ConnectSetSessionAttr_WrongHandle(t) ==
    /\ ~exited
    /\ pc[t] = "attr_ses"
    /\ \E st \in NativeStatuses, r \in NativeRecords :
         LET w0 == Logged(World(t), "attr_set_session", loc[t].svchp, st)
             w1 == IF Took(st)
                   THEN [w0 EXCEPT !.oci.sesAttr = @ \cup {<< loc[t].svchp, loc[t].srvhp >>}]
                   ELSE w0
             c  == ConnectionNew(t, loc[t].env, loc[t].srvhp, loc[t].authp,
                                 loc[t].env.errhp, loc[t].svchp)
         IN  /\ SetWorld(t, w1)
             /\ IF st = OCI_SUCCESS
                THEN /\ conns' = conns \cup {c}
                     /\ ret' = [ret EXCEPT ![t] = [tag |-> "Ok", op |-> "connect", conn |-> c]]
                     /\ pc' = [pc EXCEPT ![t] = "idle"]
                     /\ UNCHANGED << errRec, loc >>
                ELSE /\ ToCheck(t, st, r, "attr_ses_chk")
                     /\ UNCHANGED << conns, ret >>
    /\ UNCHANGED << once, envValue, initBy, nconn, ntx, exited, cin, cout >>

\* oci::attr_set(svchp, OCI_HTYPE_SVCCTX, authp, 0, OCI_ATTR_SESSION, errhp)
\* and, when it succeeds, return Ok(Connection::new(env, srvhp, authp, errhp, svchp))
ConnectSetSessionAttr(t) ==
    /\ ~exited
    /\ pc[t] = "attr_ses"
    /\ \E st \in NativeStatuses, r \in NativeRecords :
         LET w0 == Logged(World(t), "attr_set_session", loc[t].svchp, st)
             w1 == IF Took(st)
                   THEN [w0 EXCEPT !.oci.sesAttr = @ \cup {<< loc[t].svchp, loc[t].authp >>}]
                   ELSE w0
             c  == ConnectionNew(t, loc[t].env, loc[t].srvhp, loc[t].authp,
                                 loc[t].env.errhp, loc[t].svchp)
         IN  /\ SetWorld(t, w1)
             /\ IF st = OCI_SUCCESS
                THEN /\ conns' = conns \cup {c}
                     /\ ret' = [ret EXCEPT ![t] = [tag |-> "Ok", op |-> "connect", conn |-> c]]
                     /\ pc' = [pc EXCEPT ![t] = "idle"]
                     /\ UNCHANGED << errRec, loc >>
                ELSE /\ ToCheck(t, st, r, "attr_ses_chk")
                     /\ UNCHANGED << conns, ret >>
    /\ UNCHANGED << once, envValue, initBy, nconn, ntx, exited, cin, cout >>

\* the `?` after the second attr_set
ConnectSetSessionAttrFailed(t) ==
    /\ ~exited
    /\ pc[t] = "attr_ses_chk"
    /\ Propagate(t, "attr_ses", check_error(loc[t].pend, Some(errRec), "oci::attr_set"))
    /\ UNCHANGED << oci, errRec, once, envValue, initBy, loc, calls, conns, nconn, ntx,
                    exited, cin, cout >>

(***************************************************************************)
(* Connection::commit, Connection::rollback                                *)
(***************************************************************************)
\* a transaction call on Connection c: the native call with c.svchp and
\* the Environment's error handle
TxCall(t, c, op, chk) ==
    \E st \in AllStatuses, r \in NativeRecords :
      /\ calls' = [calls EXCEPT ![t] = << [op |-> op, ty |-> "svcctx", h |-> c.svchp,
                                              errhp |-> c.env.errhp, st |-> st] >>]
      /\ ntx' = [ntx EXCEPT ![t] = @ + 1]
      /\ IF st = OCI_SUCCESS
         THEN /\ ret' = [ret EXCEPT ![t] = [tag |-> "Ok", op |-> op, conn |-> c]]
              /\ loc' = [loc EXCEPT ![t] = [NoLocals EXCEPT !.conn = c]]
              /\ UNCHANGED << errRec, pc >>
         ELSE /\ errRec' = Recorded(st, r)
              /\ loc' = [loc EXCEPT ![t] = [NoLocals EXCEPT !.conn = c, !.pend = st,
                                                            !.rec = Recorded(st, r)]]
              /\ pc' = [pc EXCEPT ![t] = chk]
              /\ ret' = [ret EXCEPT ![t] = NoValue]

\* oci::commit(self.svchp, self.env.errhp)
Commit(t) ==
    /\ ~exited
    /\ pc[t] = "idle"
    /\ Total(ntx) < MaxTxCalls
    /\ \E c \in conns : c.owner = t /\ TxCall(t, c, "commit", "commit_chk")
    /\ UNCHANGED << oci, once, envValue, initBy, conns, nconn, exited, cin, cout >>

\* oci::rollback(self.svchp, self.env.errhp)
Rollback(t) ==
    /\ ~exited
    /\ pc[t] = "idle"
    /\ Total(ntx) < MaxTxCalls
    /\ \E c \in conns : c.owner = t /\ TxCall(t, c, "rollback", "rollback_chk")
    /\ UNCHANGED << oci, once, envValue, initBy, conns, nconn, exited, cin, cout >>

\* a commit that drops the wrapper's result and returns Ok(())
CommitFailed_Swallowed(t) ==
    /\ ~exited
    /\ pc[t] = "commit_chk"
    /\ ret' = [ret EXCEPT ![t] = [tag |-> "Ok", op |-> "commit", conn |-> loc[t].conn]]
    /\ pc' = [pc EXCEPT ![t] = "idle"]
    /\ UNCHANGED << oci, errRec, once, envValue, initBy, loc, calls, conns, nconn, ntx,
                    exited, cin, cout >>

\* the wrapper's check_error after a commit that did not succeed
CommitFailed(t) ==
    /\ ~exited
    /\ pc[t] = "commit_chk"
    /\ LET r == check_error(loc[t].pend, Some(errRec), "oci::commit")
       IN  \/ r.tag = "Err" /\ ReturnErr(t, "commit", "commit", r.err)
           \/ r.tag = "Panic" /\ Panics(t, "commit", "commit")
    /\ UNCHANGED << oci, errRec, once, envValue, initBy, loc, calls, conns, nconn, ntx,
                    exited, cin, cout >>

\* the wrapper's check_error after a rollback that did not succeed
RollbackFailed(t) ==
    /\ ~exited
    /\ pc[t] = "rollback_chk"
    /\ LET r == check_error(loc[t].pend, Some(errRec), "oci::rollback")
       IN  \/ r.tag = "Err" /\ ReturnErr(t, "rollback", "rollback", r.err)
           \/ r.tag = "Panic" /\ Panics(t, "rollback", "rollback")
    /\ UNCHANGED << oci, errRec, once, envValue, initBy, loc, calls, conns, nconn, ntx,
                    exited, cin, cout >>

(***************************************************************************)
(* Drop for Connection                                                     *)
(***************************************************************************)
\* a drop that frees the handles before it ends the session and detaches
ConnectionDrop_FreeFirst(w, c, stEnd, stDetach) ==
    LET w1 == free_server_handlers(free_session_handler(w, c.authp), c.srvhp, c.svchp)
        w2 == Logged(w1, "session_end", c.authp, stEnd)
        w3 == IF Took(stEnd) THEN [w2 EXCEPT !.oci.begun = @ \ {c.authp}] ELSE w2
        w4 == Logged(w3, "server_detach", c.srvhp, stDetach)
    IN  IF Took(stDetach) THEN [w4 EXCEPT !.oci.attached = @ \ {c.srvhp}] ELSE w4

\* the native calls of drop, in the order of the code; the statuses of
\* session_end and server_detach are not looked at
ConnectionDrop(w, c, stEnd, stDetach) ==
    LET w1 == Logged(w, "session_end", c.authp, stEnd)
        w2 == IF Took(stEnd) THEN [w1 EXCEPT !.oci.begun = @ \ {c.authp}] ELSE w1
        w3 == Logged(w2, "server_detach", c.srvhp, stDetach)
        w4 == IF Took(stDetach) THEN [w3 EXCEPT !.oci.attached = @ \ {c.srvhp}] ELSE w3
        w5 == free_session_handler(w4, c.authp)
    IN  free_server_handlers(w5, c.srvhp, c.svchp)

\* a Connection owned by thread t goes out of scope (also while t unwinds)
DropConnection(t) ==
    /\ ~exited
    /\ pc[t] \in { "idle", "panicked" }
    /\ \E c \in conns, stEnd \in { OCI_SUCCESS, OCI_ERROR },
          stDetach \in { OCI_SUCCESS, OCI_ERROR }, r \in NativeRecords :
         /\ c.owner = t
         /\ SetWorld(t, ConnectionDrop([oci |-> oci, log |-> << >>], c, stEnd, stDetach))
         /\ errRec' = IF stEnd = OCI_SUCCESS /\ stDetach = OCI_SUCCESS THEN errRec ELSE r
         /\ conns' = conns \ {c}
         /\ ret' = [ret EXCEPT ![t] = [tag |-> "Dropped", op |-> "drop", conn |-> c]]
    /\ UNCHANGED << once, envValue, initBy, pc, loc, nconn, ntx, exited, cin, cout >>

(***************************************************************************)
(* Drop for Environment, and the end of the process.                       *)
(***************************************************************************)
\* Drop for Environment: free the error handle, the environment handle,
\* then oci::terminate()
EnvironmentDrop(w, env) ==
    LET w1 == handle_free(w, env.errhp)
        w2 == handle_free(w1, env.envhp)
    IN  [Logged(w2, "terminate", env.envhp, OCI_SUCCESS) EXCEPT !.oci.terminated = TRUE]

\* The process ends.  The only Environment lives inside the static
\* ORACLE_ENV; a static is never dropped, so no destructor runs here.
ProcessExit ==
    /\ ~exited
    /\ exited' = TRUE
    /\ UNCHANGED << oci, errRec, once, envValue, initBy, pc, loc, calls, ret, conns,
                    nconn, ntx, cin, cout >>

(***************************************************************************)
(* The specification of the handle lifecycle.                              *)
(***************************************************************************)
Next ==
    \/ \E t \in Threads :
         \/ StartConnect(t)
         \/ EnvironmentGet(t)
         \/ EnvironmentNewCreate(t)
         \/ EnvironmentNewErrAlloc(t)
         \/ ConnectAllocServer(t)
         \/ ConnectAllocSvcCtx(t)
         \/ ConnectServerAttach(t)
         \/ ConnectServerAttachFailed(t)
         \/ ConnectSetServerAttr(t)
         \/ ConnectSetServerAttrFailed(t)
         \/ ConnectPrepareAuth(t)
         \/ ConnectPrepareAuthFailed(t)
         \/ ConnectSessionBegin(t)
         \/ ConnectSessionBeginFailed(t)
         \/ ConnectSetSessionAttr(t)
         \/ ConnectSetSessionAttrFailed(t)
         \/ Commit(t)
         \/ CommitFailed(t)
         \/ Rollback(t)
         \/ RollbackFailed(t)
         \/ DropConnection(t)
    \/ ProcessExit

Spec == Init /\ [][Next]_vars

(***************************************************************************)
(* The specification of check_error as a function of its arguments.        *)
(***************************************************************************)
CheckInputs ==
    [errcode  : AllStatuses,
     handle   : {None} \cup { Some(r) : r \in ErrRecords \cup {NoRecord} },
     location : { "oci::commit", "oci::rollback" }]

CheckInit ==
    /\ InitMain
    /\ cin \in CheckInputs
    /\ cout = NoValue

CheckApply ==
    /\ cout = NoValue
    /\ cout' = check_error(cin.errcode, cin.handle, cin.location)
    /\ UNCHANGED << mainVars, cin >>

CheckNext == CheckApply

CheckSpec == CheckInit /\ [][CheckNext]_vars

(***************************************************************************)
(* Properties of check_error (checked under CheckSpec).                    *)
(***************************************************************************)
Applied == cout # NoValue

\* C9: check_error returns Ok exactly when the status code is OCI_SUCCESS;
\* for every other status code, with or without an error handle, the result
\* is not Ok, and OCI_SUCCESS_WITH_INFO yields an Err.
C9_OkIffSuccess ==
    Applied =>
        /\ (cout.tag = "Ok") <=> (cin.errcode = OCI_SUCCESS)
        /\ cin.errcode = OCI_SUCCESS_WITH_INFO => cout.tag = "Err"

C9_Witness ==
    /\ Applied
    /\ cin.errcode = OCI_SUCCESS_WITH_INFO
    /\ cin.handle.some
    /\ cout.tag = "Err"

NullInAggregateMessage == "NULL column in a aggregate function"

\* C10: when the error handle reports native code 24347 and the status is
\* one whose detail is taken from the handle (error, success-with-info),
\* check_error returns an Err with code 24347 and the fixed message, whatever
\* text the handle holds; and no returned error with code 24347 carries
\* another message.
C10_NullInAggregate ==
    Applied =>
        /\ ( /\ cin.errcode \in { OCI_ERROR, OCI_SUCCESS_WITH_INFO }
             /\ cin.handle.some
             /\ cin.handle.rec.code = ORA_NULL_IN_AGGREGATE )
           => ( /\ cout.tag = "Err"
                /\ cout.err.errcode = ORA_NULL_IN_AGGREGATE
                /\ cout.err.message = NullInAggregateMessage )
        /\ (cout.tag = "Err" /\ cout.err.errcode = ORA_NULL_IN_AGGREGATE)
           => cout.err.message = NullInAggregateMessage

C10_Witness ==
    /\ Applied
    /\ cin.errcode = OCI_ERROR
    /\ cin.handle.some
    /\ cin.handle.rec = [code |-> ORA_NULL_IN_AGGREGATE, text |-> "ORA-b"]
    /\ cout.tag = "Err"
    /\ cout.err.message = NullInAggregateMessage

(***************************************************************************)
(* Properties of the handle lifecycle (checked under Spec).                *)
(***************************************************************************)
ConnectionTypes == { "server", "svcctx", "session" }

\* the handles of the three connection types that the operation in
\* calls[t] allocated
AllocatedBy(t) ==
    { calls[t][i].h : i \in { j \in DOMAIN calls[t] :
          /\ calls[t][j].op \in { "handle_alloc", "prepare_auth" }
          /\ calls[t][j].st = OCI_SUCCESS
          /\ calls[t][j].ty \in ConnectionTypes } }

\* how often the operation in calls[t] freed h
FreesOf(t, h) ==
    Cardinality({ j \in DOMAIN calls[t] :
                    calls[t][j].op = "handle_free" /\ calls[t][j].h = h })

ConnectFailed(t) == ret[t].tag = "Err" /\ ret[t].op = "connect"
ConnectFailedAt(t, step) == ConnectFailed(t) /\ ret[t].step = step

\* the native calls of connect itself: calls[t] without the calls of
\* Environment::new, which the thread made if it initialised ORACLE_ENV
IsOwnCall(e) == e.ty \notin { "env", "error" }
OwnCalls(t) == SelectSeq(calls[t], IsOwnCall)

Ops(log) == [i \in DOMAIN log |-> log[i].op]
HandlesOf(log) == [i \in DOMAIN log |-> log[i].h]

\* C1: when connect returns an error, every handle the call allocated has
\* been freed exactly once (frees = allocations, nothing freed twice).
C1_UnwindOnEveryFailure ==
    \A t \in Threads :
        ConnectFailed(t) =>
            /\ \A h \in AllocatedBy(t) : FreesOf(t, h) = 1 /\ h \notin oci.allocated
            /\ oci.doubleFreed = {}

\* the handles of the connect call whose locals are in loc[t]
SrvOf(t) == Handle(t, loc[t].k, "server")
SvcOf(t) == Handle(t, loc[t].k, "svcctx")
AuthOf(t) == Handle(t, loc[t].k, "session")

InConnect(t) ==
    pc[t] \in { "get", "new_env", "new_err", "srv", "svc", "attach", "attach_chk",
                "attr_srv", "attr_srv_chk", "auth", "auth_chk", "begin", "begin_chk",
                "attr_ses", "attr_ses_chk" }

ConnectSteps ==
    << "handle_alloc", "handle_alloc", "server_attach", "attr_set_server",
       "prepare_auth", "session_begin", "attr_set_session" >>

FullyBuilt(c) ==
    /\ Null \notin { c.srvhp, c.svchp, c.authp }
    /\ { c.srvhp, c.svchp, c.authp } \subseteq oci.allocated
    /\ c.srvhp \in oci.attached
    /\ << c.svchp, c.srvhp >> \in oci.srvAttr
    /\ c.authp \in oci.begun
    /\ << c.svchp, c.authp >> \in oci.sesAttr

\* C2: a Connection exists only for a connect call whose seven steps all
\* succeeded: every Connection has its three handles allocated and both
\* attributes set, a connect that returned Ok made exactly the seven
\* successful native calls, and no Connection exists for a call that failed
\* or is still running.
C2_NoPartialConnection ==
    /\ \A c \in conns : FullyBuilt(c)
    /\ \A t \in Threads :
         /\ (ret[t].tag = "Ok" /\ ret[t].op = "connect") =>
                /\ Ops(OwnCalls(t)) = ConnectSteps
                /\ \A i \in DOMAIN OwnCalls(t) : OwnCalls(t)[i].st = OCI_SUCCESS
                /\ ret[t].conn = ConnectionNew(t, envValue.env, SrvOf(t), AuthOf(t),
                                               envValue.env.errhp, SvcOf(t))
         /\ (InConnect(t) \/ (ret[t].tag \in { "Err", "Panic" } /\ ret[t].op = "connect")) =>
                \A c \in conns : c.svchp # SvcOf(t) /\ c.srvhp # SrvOf(t) /\ c.authp # AuthOf(t)

C2_Witness ==
    \E t1, t2 \in Threads :
        /\ ret[t1].tag = "Ok" /\ ret[t1].op = "connect" /\ ret[t1].conn \in conns
        /\ ConnectFailedAt(t2, "attr_ses")

\* the translations check_error can give for status st and an error handle
TranslationsOf(st, location) ==
    { check_error(st, Some(r), location) : r \in NativeRecords \cup {NoRecord} }

\* C3: a connect that fails at session begin frees the session handle, then
\* the service context, then the server handle, each once, as its last
\* native calls, returns session begin's error, and leaves none of the
\* three handles allocated.
C3_SessionBeginFailure ==
    \A t \in Threads :
        ConnectFailedAt(t, "begin") =>
            LET own == OwnCalls(t)
            IN  /\ Ops(own) = << "handle_alloc", "handle_alloc", "server_attach",
                                 "attr_set_server", "prepare_auth", "session_begin",
                                 "handle_free", "handle_free", "handle_free" >>
                /\ own[6].st # OCI_SUCCESS
                /\ << own[7].h, own[8].h, own[9].h >> = << AuthOf(t), SvcOf(t), SrvOf(t) >>
                /\ \A h \in { AuthOf(t), SvcOf(t), SrvOf(t) } :
                       /\ h \in AllocatedBy(t)
                       /\ h \notin oci.allocated
                       /\ h \in oci.freed
                       /\ h \notin oci.doubleFreed
                /\ ret[t].err.location = "oci::session_begin"
                /\ [tag |-> "Err", err |-> ret[t].err, gets |-> 1]
                      \in TranslationsOf(own[6].st, "oci::session_begin")

C3_Witness ==
    \E t \in Threads :
        /\ ConnectFailedAt(t, "begin")
        /\ ret[t].err.errcode = 1017
        /\ AuthOf(t) \in oci.freed

\* C4: a connect that fails at server attach frees the service context and
\* the server handle, each once, makes no native call after them (no
\* attribute set, no prepare_auth, no session begin) and returns the attach
\* error.
C4_AttachFailure ==
    \A t \in Threads :
        ConnectFailedAt(t, "attach") =>
            LET own == OwnCalls(t)
            IN  /\ Ops(own) = << "handle_alloc", "handle_alloc", "server_attach",
                                 "handle_free", "handle_free" >>
                /\ own[3].st # OCI_SUCCESS
                /\ { own[4].h, own[5].h } = { SvcOf(t), SrvOf(t) }
                /\ \A h \in { SvcOf(t), SrvOf(t) } :
                       /\ h \in AllocatedBy(t)
                       /\ h \notin oci.allocated
                       /\ h \in oci.freed
                       /\ h \notin oci.doubleFreed
                /\ AuthOf(t) \notin oci.allocated \cup oci.freed
                /\ ret[t].err.location = "oci::server_attach"
                /\ [tag |-> "Err", err |-> ret[t].err, gets |-> 1]
                      \in TranslationsOf(own[3].st, "oci::server_attach")

C4_Witness ==
    \E t \in Threads :
        /\ ConnectFailedAt(t, "attach")
        /\ { SvcOf(t), SrvOf(t) } \subseteq oci.freed

\* C5: dropping a Connection ends the session, detaches the server, frees
\* the session handle, the service context and the server handle, in this
\* order and each once; afterwards none of the three is allocated, and the
\* shared error handle and the environment handle are still allocated.
C5_DropOrder ==
    \A t \in Threads :
        ret[t].tag = "Dropped" =>
            LET c == ret[t].conn
            IN  /\ Ops(calls[t]) = << "session_end", "server_detach", "handle_free",
                                      "handle_free", "handle_free" >>
                /\ HandlesOf(calls[t]) = << c.authp, c.srvhp, c.authp, c.svchp, c.srvhp >>
                /\ \A h \in { c.authp, c.svchp, c.srvhp } :
                       /\ h \notin oci.allocated
                       /\ h \in oci.freed
                       /\ h \notin oci.doubleFreed
                /\ { c.errhp, c.env.envhp } \subseteq oci.allocated
                /\ c \notin conns

C5_Witness ==
    \E t \in Threads : ret[t].tag = "Dropped" /\ conns # {}

\* the handles Environment::new allocated, live or freed
EnvHandles == { h \in oci.allocated \cup oci.freed : HandleType(h) \in { "env", "error" } }

\* C6: whatever the interleaving of the threads that reach the accessor
\* before ORACLE_ENV is initialised, the initialising sequence (create the
\* environment, allocate the error handle) runs at most once, in one
\* thread, and every thread gets that thread's result.
C6_InitOnce ==
    /\ oci.envCreates <= 1
    /\ Cardinality(initBy) <= 1
    /\ Cardinality({ h \in EnvHandles : HandleType(h) = "env" }) <= 1
    /\ Cardinality({ h \in EnvHandles : HandleType(h) = "error" }) <= 1
    /\ \A h \in EnvHandles : \E t \in initBy : h[1] = t
    /\ \A t \in Threads :
         /\ loc[t].env # NoValue =>
                once = "complete" /\ envValue.tag = "Ok" /\ loc[t].env = envValue.env
         /\ ConnectFailedAt(t, "get") =>
                once = "complete" /\ envValue.tag = "Err" /\ ret[t].err = envValue.err

\* a thread waits at the accessor while another runs the initialiser
C6_Witness ==
    \E t1, t2 \in Threads :
        /\ t1 # t2
        /\ once = "running"
        /\ pc[t1] = "new_err"
        /\ pc[t2] = "get"
        /\ oci.envCreates = 1

Initialised == once = "complete" /\ envValue.tag = "Ok"

\* C7: once ORACLE_ENV holds an Environment, it holds the same one from
\* then on, an accessor call returns it without any native call, and no
\* other environment-creation call is made: there is at most one ever.
C7_SameInstance ==
    /\ [](oci.envCreates <= 1)
    /\ [][ Initialised =>
             /\ Initialised'
             /\ envValue' = envValue
             /\ oci'.envCreates = oci.envCreates
             /\ \A t \in Threads :
                   (pc[t] = "get" /\ pc'[t] # "get") =>
                       /\ pc'[t] = "srv"
                       /\ loc'[t].env = envValue.env
                       /\ oci' = oci
                       /\ calls' = calls ]_vars

\* a thread that did not initialise ORACLE_ENV has obtained the Environment,
\* and so has, in an earlier or later call, the thread that did
C7_Witness ==
    \E t1, t2 \in Threads :
        /\ Initialised
        /\ t1 \in initBy
        /\ t2 \notin initBy
        /\ loc[t1].env = envValue.env
        /\ loc[t2].env = envValue.env

\* C8: the Environment's teardown (free the error handle, free the
\* environment handle, terminate) has happened once the process has ended,
\* and has not happened while the process runs.
C8_TeardownAtExit ==
    Initialised =>
        LET torn == /\ envValue.env.errhp \in oci.freed
                    /\ envValue.env.envhp \in oci.freed
                    /\ oci.terminated
        IN  /\ exited => torn
            /\ ~exited => ( /\ { envValue.env.errhp, envValue.env.envhp } \subseteq oci.allocated
                            /\ ~oci.terminated )

FixedMessage(st) ==
    CASE st = OCI_NO_DATA -> "No data"
      [] st = OCI_INVALID_HANDLE -> "Invalid handle"
      [] st = OCI_NEED_DATA -> "Need data"
      [] st = OCI_STILL_EXECUTING -> "Steel executing"

FixedMessageStatuses ==
    { OCI_NO_DATA, OCI_INVALID_HANDLE, OCI_NEED_DATA, OCI_STILL_EXECUTING }

\* C11: for no-data, invalid-handle, need-data and still-executing,
\* check_error returns an Err with the status as its code and the fixed
\* message of that status, and makes no error_get call, with or without an
\* error handle.
C11_FixedMessagesNoRetrieval ==
    (Applied /\ cin.errcode \in FixedMessageStatuses) =>
        /\ cout.tag = "Err"
        /\ cout.err = OracleError(cin.errcode, FixedMessage(cin.errcode), cin.location)
        /\ cout.gets = 0

\* C12: for every status code outside the seven documented ones check_error
\* returns neither Ok nor Err: it panics, with or without an error handle;
\* and it panics for no documented status.
C12_UndocumentedPanics ==
    Applied =>
        /\ cin.errcode \notin DocumentedStatuses => cout.tag = "Panic"
        /\ cout.tag = "Panic" => cin.errcode \notin DocumentedStatuses

C12_Witness ==
    /\ Applied
    /\ cin.errcode = -24200
    /\ cin.handle.some
    /\ cout.tag = "Panic"

TxOps == { "commit", "rollback" }
TxReturned(t) == ret[t].tag \in { "Ok", "Err", "Panic" } /\ ret[t].op \in TxOps

\* what a returned commit or rollback did, but for the statuses it maps to Err
TxOneCall(t) ==
    LET c == loc[t].conn
        e == calls[t][1]
    IN  /\ Len(calls[t]) = 1
        /\ e.op = ret[t].op
        /\ e.h = c.svchp
        /\ Initialised /\ e.errhp = envValue.env.errhp
        /\ (ret[t].tag = "Ok") <=> (e.st = OCI_SUCCESS)

\* a step of a commit or a rollback of thread t
TxStep(t) ==
    \/ ntx'[t] # ntx[t]
    \/ pc[t] \in { "commit_chk", "rollback_chk" } /\ pc'[t] # pc[t]

\* C13 as stated: commit and rollback make one native call with the
\* Connection's service context and the Environment's error handle, and map
\* every non-success status of it to an Err.
C13_EveryStatusIsErr ==
    \A t \in Threads :
        TxReturned(t) =>
            /\ TxOneCall(t)
            /\ calls[t][1].st # OCI_SUCCESS => ret[t].tag = "Err"

\* C13 amended: commit and rollback make one native call with the
\* Connection's service context and the Environment's error handle; every
\* documented non-success status of it is returned as an Err, an
\* undocumented status panics; no step of either allocates, frees or
\* rewires a handle.
C13_TxCalls ==
    /\ [](\A t \in Threads :
            TxReturned(t) =>
                /\ TxOneCall(t)
                /\ calls[t][1].st \in DocumentedStatuses \ {OCI_SUCCESS} =>
                       /\ ret[t].tag = "Err"
                       /\ ret[t].err.location \in { "oci::commit", "oci::rollback" }
                /\ calls[t][1].st \notin DocumentedStatuses => ret[t].tag = "Panic")
    /\ [][ \A t \in Threads : TxStep(t) => oci' = oci /\ conns' = conns ]_vars

\* a commit returned Ok and the rollback after it, on the same Connection,
\* returned an Err
C13_Witness ==
    \E t \in Threads :
        /\ ntx[t] = 2
        /\ ret[t].tag = "Err"
        /\ ret[t].op = "rollback"
        /\ loc[t].conn \in conns

ChainOf(c) == { c.srvhp, c.svchp, c.authp }

\* the values an attribute table holds for service context svchp
AttrOf(table, svchp) == { p[2] : p \in { q \in table : q[1] = svchp } }

\* C14: the Connections that exist at the same time own pairwise disjoint
\* server, service-context and session handles, and the service context of
\* each has its server attribute set to the Connection's own server handle
\* and its session attribute set to the Connection's own session handle.
C14_DisjointWiredChains ==
    /\ \A c1, c2 \in conns : c1 # c2 => ChainOf(c1) \cap ChainOf(c2) = {}
    /\ \A c \in conns :
         /\ Cardinality(ChainOf(c)) = 3
         /\ Null \notin ChainOf(c)
         /\ AttrOf(oci.srvAttr, c.svchp) = { c.srvhp }
         /\ AttrOf(oci.sesAttr, c.svchp) = { c.authp }

\* two Connections exist at the same time
C14_Witness == Cardinality(conns) = 2

InitFailed == once = "complete" /\ envValue.tag = "Err"

\* C15: when Environment::new created the environment and then failed to
\* allocate the error handle, the environment handle has been released
\* when the error is returned: no handle of the initialisation stays
\* allocated.
C15_InitUnwinds ==
    InitFailed => \A h \in oci.allocated : HandleType(h) \notin { "env", "error" }

\* C16: a failed first initialisation is kept: from then on ORACLE_ENV holds
\* the same error, every accessor call (every connect) returns an error
\* equal to it, and no native call is made, so environment creation is
\* never attempted again.
C16_FailureIsKept ==
    /\ [](InitFailed =>
            \A t \in Threads : ConnectFailed(t) =>
                /\ ret[t].step = "get"
                /\ ret[t].err = envValue.err)
    /\ [][ InitFailed =>
             /\ InitFailed'
             /\ envValue' = envValue
             /\ oci' = oci
             /\ \A t \in Threads :
                   /\ Len(calls'[t]) <= Len(calls[t])
                   /\ (pc[t] = "get" /\ pc'[t] # "get") =>
                          /\ pc'[t] = "idle"
                          /\ ret'[t].tag = "Err"
                          /\ ret'[t].err = envValue.err ]_vars

\* a thread that did not run the initialiser, and the thread that did, have
\* both been handed the kept error
C16_Witness ==
    \E t1, t2 \in Threads :
        /\ InitFailed
        /\ t1 \in initBy /\ t2 \notin initBy
        /\ ConnectFailedAt(t1, "get") /\ ConnectFailedAt(t2, "get")
        /\ oci.envCreates = 1

\* thread t is in a connect call or its last operation was one
ConnectCall(t) ==
    \/ InConnect(t)
    \/ ret[t].tag \in { "Ok", "Err", "Panic" } /\ ret[t].op = "connect"

IsStep(e) == e.op # "handle_free"

\* the native steps of the connect call in calls[t], without its frees
NativeSteps(t) == SelectSeq(OwnCalls(t), IsStep)

\* C17: the native steps of a connect call are a prefix of the fixed list
\* (server alloc, service-context alloc, attach, server attribute,
\* prepare_auth, session begin, session attribute), made after the
\* Environment was obtained; every step but the last one made has
\* succeeded, so no step starts before the earlier ones succeeded and none
\* follows a failed one.
C17_FixedOrder ==
    \A t \in Threads :
        ConnectCall(t) =>
            LET steps == NativeSteps(t)
            IN  /\ Len(steps) <= Len(ConnectSteps)
                /\ \A i \in DOMAIN steps :
                       /\ steps[i].op = ConnectSteps[i]
                       /\ i < Len(steps) => steps[i].st = OCI_SUCCESS
                /\ Len(steps) > 0 => Initialised /\ loc[t].env = envValue.env
                /\ \A i, j \in DOMAIN calls[t] :
                       /\ (~IsOwnCall(calls[t][i]) /\ IsOwnCall(calls[t][j])) => i < j
                       /\ ( /\ IsOwnCall(calls[t][i]) /\ IsStep(calls[t][i])
                            /\ ~IsStep(calls[t][j]) ) => i < j
                /\ (ret[t].tag = "Ok" /\ ret[t].op = "connect") =>
                       Len(steps) = Len(ConnectSteps)
                /\ (ConnectFailed(t) /\ ret[t].step # "get") =>
                       steps[Len(steps)].st # OCI_SUCCESS

\* the thread that initialised ORACLE_ENV went through all seven steps
C17_Witness ==
    \E t \in Threads :
        /\ t \in initBy
        /\ ret[t].tag = "Ok" /\ ret[t].op = "connect"
        /\ Len(NativeSteps(t)) = 7
        /\ Len(calls[t]) = 9

\* in log, every handle_free of a handle on which the call `open` returned
\* OCI_SUCCESS earlier in the log has a call `close` on it in between
ClosedBeforeFree(log, open, close) ==
    \A i, j \in DOMAIN log :
        ( /\ i < j
          /\ log[i].op = open /\ log[i].st = OCI_SUCCESS
          /\ log[j].op = "handle_free" /\ log[j].h = log[i].h ) =>
            \E k \in DOMAIN log :
                i < k /\ k < j /\ log[k].op = close /\ log[k].h = log[i].h

\* in log, the call `close` on handle h is made before h is freed
CloseCalledFirst(log, close, h) ==
    \A j \in DOMAIN log :
        (log[j].op = "handle_free" /\ log[j].h = h) =>
            \E k \in DOMAIN log : k < j /\ log[k].op = close /\ log[k].h = h

\* C18: in connect and in the destruction of a Connection, a server handle
\* whose attach succeeded is detached before it is freed, and a session
\* handle whose session was begun is ended before it is freed.
C18_DetachBeforeFree ==
    \A t \in Threads :
        /\ ClosedBeforeFree(calls[t], "server_attach", "server_detach")
        /\ ClosedBeforeFree(calls[t], "session_begin", "session_end")
        /\ ret[t].tag = "Dropped" =>
               /\ CloseCalledFirst(calls[t], "server_detach", ret[t].conn.srvhp)
               /\ CloseCalledFirst(calls[t], "session_end", ret[t].conn.authp)

\* the steps whose native call is made with the shared error handle
ErrorHandleSteps ==
    { "attach", "attr_srv", "auth", "begin", "attr_ses", "commit", "rollback" }

\* the last operation of thread t returned the error of a native call that
\* left a diagnostic record in the error handle
FailedWithRecord(t) ==
    /\ ret[t].tag = "Err"
    /\ ret[t].step \in ErrorHandleSteps
    /\ loc[t].pend \in { OCI_ERROR, OCI_SUCCESS_WITH_INFO }

\* C19: with each Connection used by its own thread, the error returned
\* for a failed native call carries the code that this call recorded in
\* the error handle, never the one recorded by another thread's call.
C19_OwnErrorDetail ==
    \A t \in Threads :
        FailedWithRecord(t) => ret[t].err.errcode = loc[t].rec.code

====
